---- MODULE Spec2Model ----
(***************************************************************************)
(* SmallMap / SmallSet of more_collections: a container that keeps up to C *)
(* entries inline (SmallVec) and moves all of them to an IndexMap on the   *)
(* heap when an insert would not fit.                                      *)
(*                                                                         *)
(* A SmallVec and an IndexMap are both modelled as a sequence of           *)
(* <<key, value>> pairs in iteration order; the tag says which one the     *)
(* container holds.  Indexes are 0-based as in the source, so the pair at  *)
(* index i is items[i + 1].                                                *)
(***************************************************************************)
EXTENDS Integers, Sequences, FiniteSets, TLC

\* ---------------------------------------------------------------- bounds
MaxC == 3
NKeys == 3
NVals == 2
MaxList == 3

\* the unit value () stored by a SmallSet (SmallMap<T, (), C>)
Unit == 0

Caps == 0..MaxC
Keys == 1..NKeys
Vals == 1..NVals

\* ---------------------------------------------------------------- Option
None == [some |-> FALSE]
Some(x) == [some |-> TRUE, val |-> x]

\* ------------------------------------------------- sequences of pairs
Pairs(V) == Keys \X V

RECURSIVE SeqsUpTo(_, _)
SeqsUpTo(S, n) ==
    IF n = 0 THEN {<<>>}
    ELSE LET shorter == SeqsUpTo(S, n - 1)
         IN  shorter \cup {Append(s, x) : s \in {t \in shorter : Len(t) = n - 1}, x \in S}

KeySeq(items) == [i \in DOMAIN items |-> items[i][1]]
KeySet(items) == {items[i][1] : i \in DOMAIN items}
DistinctKeys(items) ==
    \A i, j \in DOMAIN items : items[i][1] = items[j][1] => i = j

\* ------------------------------------------------------------ SmallMap
Inline(sv) == [tag |-> "Inline", items |-> sv]
Heap(m) == [tag |-> "Heap", items |-> m]
NoData == [tag |-> "None", items |-> <<>>]

len(d) == Len(d.items)
is_empty(d) == len(d) = 0
is_inline(d) == d.tag = "Inline"
iter(d) == d.items
into_iter(d) == d.items

\* vec.iter().position(|(k, _v)| key == k): the first index holding key
position(items, key) ==
    IF \E i \in DOMAIN items : items[i][1] = key
    THEN Some((CHOOSE i \in DOMAIN items :
                  /\ items[i][1] = key
                  /\ \A j \in DOMAIN items : items[j][1] = key => i <= j) - 1)
    ELSE None

\* IndexMap::insert: an existing key keeps its place and gets the new value,
\* the old value is returned; a new key is appended
IndexMapInsert(m, key, value) ==
    LET at == position(m, key)
    IN  IF at.some
        THEN [map |-> [m EXCEPT ![at.val + 1] = <<key, value>>],
              ret |-> Some(m[at.val + 1][2])]
        ELSE [map |-> Append(m, <<key, value>>), ret |-> None]

\* mutant of Collect: the pairs are drained back to front
RECURSIVE CollectReversed(_)
CollectReversed(items) ==
    IF items = <<>> THEN <<>>
    ELSE IndexMapInsert(CollectReversed(SubSeq(items, 2, Len(items))),
                        items[1][1], items[1][2]).map

\* sv.drain(0..sv.len()).collect::<FastIndexMap<_, _>>(): the pairs are
\* inserted into an empty IndexMap in order
RECURSIVE Collect(_)
Collect(items) ==
    IF items = <<>> THEN <<>>
    ELSE IndexMapInsert(Collect(SubSeq(items, 1, Len(items) - 1)),
                        items[Len(items)][1], items[Len(items)][2]).map

get(d, key) ==
    LET at == position(d.items, key)
    IN  IF at.some THEN Some(d.items[at.val + 1][2]) ELSE None

\* mutant of get_index: the position is counted from the last pair
get_index_FromEnd(d, index) ==
    IF index < len(d) THEN Some(d.items[len(d) - index]) ELSE None

get_index(d, index) ==
    IF index < len(d) THEN Some(d.items[index + 1]) ELSE None

get_index_of(d, key) == position(d.items, key)

\* mutant of InsertInlineFull: the triggering pair is not inserted
InsertInlineFull_DropsNew(sv, key, value) ==
    [data |-> Heap(Collect(sv)), ret |-> None]

\* mutant of InsertInlineFits: the new value is returned, not the old one
InsertInlineFits_ReturnsNew(sv, key, value) ==
    LET existing_index == position(sv, key)
    IN  IF existing_index.some
        THEN [data |-> Inline([sv EXCEPT ![existing_index.val + 1] = <<key, value>>]),
              ret |-> Some(value)]
        ELSE [data |-> Inline(Append(sv, <<key, value>>)), ret |-> None]

\* mutant of InsertInlineFits: an existing key is removed and pushed again
InsertInlineFits_MovesToEnd(sv, key, value) ==
    LET existing_index == position(sv, key)
    IN  IF existing_index.some
        THEN [data |-> Inline(Append(SubSeq(sv, 1, existing_index.val) \o
                                     SubSeq(sv, existing_index.val + 2, Len(sv)),
                                     <<key, value>>)),
              ret |-> Some(sv[existing_index.val + 1][2])]
        ELSE [data |-> Inline(Append(sv, <<key, value>>)), ret |-> None]

\* mutant of InsertInlineFits: the pair is pushed without looking for the key
InsertInlineFits_AlwaysPush(sv, key, value) ==
    [data |-> Inline(Append(sv, <<key, value>>)), ret |-> None]

\* SmallMap::insert with capacity c: the new data and the returned Option.
\* The inline branch taken when sv.len() + 1 > C (move to heap):
InsertInlineFull(sv, key, value) ==
    LET r == IndexMapInsert(Collect(sv), key, value)
    IN  [data |-> Heap(r.map), ret |-> r.ret]

InsertInlineFits(sv, key, value) ==
    LET existing_index == position(sv, key)
    IN  IF existing_index.some
        THEN [data |-> Inline([sv EXCEPT ![existing_index.val + 1] = <<key, value>>]),
              ret |-> Some(sv[existing_index.val + 1][2])]
        ELSE [data |-> Inline(Append(sv, <<key, value>>)), ret |-> None]

InsertHeap(m, key, value) ==
    LET r == IndexMapInsert(m, key, value)
    IN  [data |-> Heap(r.map), ret |-> r.ret]

\* mutant of insert: the move to the heap happens one entry early
insert_OneEarly(d, c, key, value) ==
    IF d.tag = "Inline"
    THEN IF Len(d.items) + 1 >= c
         THEN InsertInlineFull(d.items, key, value)
         ELSE InsertInlineFits(d.items, key, value)
    ELSE InsertHeap(d.items, key, value)

\* mutant of insert: a heap map that fits in C entries is moved back inline
insert_ShrinksBack(d, c, key, value) ==
    IF d.tag = "Inline"
    THEN IF Len(d.items) + 1 > c
         THEN InsertInlineFull(d.items, key, value)
         ELSE InsertInlineFits(d.items, key, value)
    ELSE IF Len(InsertHeap(d.items, key, value).data.items) <= c
         THEN [data |-> Inline(InsertHeap(d.items, key, value).data.items),
               ret |-> InsertHeap(d.items, key, value).ret]
         ELSE InsertHeap(d.items, key, value)

insert(d, c, key, value) ==
    IF d.tag = "Inline"
    THEN IF Len(d.items) + 1 > c
         THEN InsertInlineFull(d.items, key, value)
         ELSE InsertInlineFits(d.items, key, value)
    ELSE InsertHeap(d.items, key, value)

\* writing w through the &mut V of the pair at index (get_mut, get_index_mut,
\* index_mut and and_modify all end in such a write)
WriteAt(d, index, w) ==
    [d EXCEPT !.items[index + 1] = <<d.items[index + 1][1], w>>]

\* and_modify's closure f: FnOnce(&mut V), drawn from two sample closures
Fns == {"succ", "first"}
Apply(f, v) == IF f = "succ" THEN (v % NVals) + 1 ELSE 1

\* ------------------------------------------------------------- Entry
NoEntry == [kind |-> "None"]
Occupied(index) == [kind |-> "Occupied", index |-> index]
Vacant(key) == [kind |-> "Vacant", key |-> key]

\* mutant of entry_of: the key is not looked up
entry_of_AlwaysVacant(d, key) == Vacant(key)

entry_of(d, key) ==
    LET index == get_index_of(d, key)
    IN  IF index.some THEN Occupied(index.val) ELSE Vacant(key)

\* ------------------------------------- reference insertion-ordered map
\* keys in order of first insertion, the current value of each key, the
\* value the last insert has to return, and whether every call so far was an
\* insert of a key that was not yet present
RefEmpty == [keys |-> <<>>, val |-> <<>>, ret |-> None, fresh |-> TRUE]

RefHas(r, k) == \E i \in DOMAIN r.keys : r.keys[i] = k
RefIndex(r, k) == CHOOSE i \in DOMAIN r.keys : r.keys[i] = k

RefInsert(r, k, v) ==
    IF RefHas(r, k)
    THEN [keys |-> r.keys,
          val |-> [r.val EXCEPT ![RefIndex(r, k)] = v],
          ret |-> Some(r.val[RefIndex(r, k)]),
          fresh |-> FALSE]
    ELSE [keys |-> Append(r.keys, k),
          val |-> Append(r.val, v),
          ret |-> None,
          fresh |-> r.fresh]

RefWriteAt(r, i, w) ==
    [keys |-> r.keys,
     val |-> IF i + 1 \in DOMAIN r.val THEN [r.val EXCEPT ![i + 1] = w] ELSE r.val,
     ret |-> None,
     fresh |-> FALSE]

RefWriteKey(r, k, w) ==
    IF RefHas(r, k) THEN RefWriteAt(r, RefIndex(r, k) - 1, w)
    ELSE [r EXCEPT !.ret = None, !.fresh = FALSE]

RefRead(r) == [r EXCEPT !.ret = None, !.fresh = FALSE]

RECURSIVE RefFromList(_)
RefFromList(list) ==
    IF list = <<>> THEN RefEmpty
    ELSE RefInsert(RefFromList(SubSeq(list, 1, Len(list) - 1)),
                   list[Len(list)][1], list[Len(list)][2])

\* --------------------------------------------------------------- state
VARIABLES
    C,       \* the const generic C of the container's type
    kind,    \* "map" for a SmallMap, "set" for a SmallSet
    pc,      \* "start" before construction, "live", "panicked"
    data,    \* SmallMap::data
    entry,   \* the Entry handle borrowing the map, if any
    call,    \* the last call made; a call on the second container carries
             \* along the list the first container was built from
    ret,     \* what the last call returned
    was_inline,  \* what is_inline() was when the last call was made
    old,     \* data as it was when the last call was made, if that call was
             \* an insert, an entry, an or_insert or a lookup (NoData after
             \* any other call)
    ref,     \* the reference map fed the same calls
    other,   \* a second container of the same type, the right-hand side of ==
    fed      \* how many entries of the first container's list other was given

vars == <<C, kind, pc, data, entry, call, ret, was_inline, old, ref, other, fed>>

\* the second container is touched only by the calls made on it
rhs == <<other, fed>>

Panic(msg) == [panic |-> msg]
\* Some(&mut V): the reference itself is not recorded
SomeRef == [some |-> TRUE]
RetUnit == [unit |-> TRUE]

MaxIndex == IF NKeys > MaxList THEN NKeys ELSE MaxList
Indexes == 0..MaxIndex

Init ==
    /\ C \in Caps
    /\ kind = "none"
    /\ pc = "start"
    /\ data = NoData
    /\ entry = NoEntry
    /\ call = [op |-> "none"]
    /\ ret = None
    /\ was_inline = FALSE
    /\ old = NoData
    /\ ref = RefEmpty
    /\ other = NoData
    /\ fed = 0

Idle == pc = "live" /\ entry = NoEntry
IdleMap == Idle /\ kind = "map"
IdleSet == Idle /\ kind = "set"

\* SmallMap::new
New(debug) ==
    /\ pc = "start"
    /\ call' = [op |-> "new", debug |-> debug]
    /\ was_inline' = is_inline(data)
    /\ old' = NoData
    /\ IF debug /\ ~(C > 0)
       THEN /\ pc' = "panicked"
            /\ ret' = Panic("Cannot instantiate SmallMap with no capacity")
            /\ UNCHANGED <<kind, data>>
       ELSE /\ pc' = "live"
            /\ kind' = "map"
            /\ data' = Inline(<<>>)
            /\ ret' = RetUnit
    /\ UNCHANGED <<C, entry, ref, rhs>>

\* SmallSet::new
SetNew(debug) ==
    /\ pc = "start"
    /\ call' = [op |-> "SmallSet::new", debug |-> debug]
    /\ was_inline' = is_inline(data)
    /\ old' = NoData
    /\ IF debug /\ ~(C > 0)
       THEN /\ pc' = "panicked"
            /\ ret' = Panic("Cannot instantiate SmallMap with no capacity")
            /\ UNCHANGED <<kind, data>>
       ELSE /\ pc' = "live"
            /\ kind' = "set"
            /\ data' = Inline(<<>>)
            /\ ret' = RetUnit
    /\ UNCHANGED <<C, entry, ref, rhs>>

\* SmallMap::insert
Insert(key, value) ==
    /\ IdleMap
    /\ call' = [op |-> "insert", key |-> key, val |-> value]
    /\ was_inline' = is_inline(data)
    /\ old' = data
    /\ data' = insert(data, C, key, value).data
    /\ ret' = insert(data, C, key, value).ret
    /\ ref' = RefInsert(ref, key, value)
    /\ UNCHANGED <<C, kind, pc, entry, rhs>>

\* SmallSet::insert
SetInsert(value) ==
    /\ IdleSet
    /\ call' = [op |-> "SmallSet::insert", key |-> value, val |-> Unit]
    /\ was_inline' = is_inline(data)
    /\ old' = data
    /\ data' = insert(data, C, value, Unit).data
    /\ ret' = RetUnit
    /\ ref' = RefInsert(ref, value, Unit)
    /\ UNCHANGED <<C, kind, pc, entry, rhs>>

\* SmallMap::get_mut, and the caller storing w through the reference
GetMut(key, w) ==
    /\ IdleMap
    /\ call' = [op |-> "get_mut"]
    /\ was_inline' = is_inline(data)
    /\ old' = NoData
    /\ ret' = IF get_index_of(data, key).some THEN SomeRef ELSE None
    /\ data' = IF get_index_of(data, key).some
               THEN WriteAt(data, get_index_of(data, key).val, w)
               ELSE data
    /\ ref' = RefWriteKey(ref, key, w)
    /\ UNCHANGED <<C, kind, pc, entry, rhs>>

\* SmallMap::get_index_mut, and the caller storing w through the &mut V
GetIndexMut(index, w) ==
    /\ IdleMap
    /\ call' = [op |-> "get_index_mut"]
    /\ was_inline' = is_inline(data)
    /\ old' = NoData
    /\ ret' = IF get_index(data, index).some THEN SomeRef ELSE None
    /\ data' = IF get_index(data, index).some THEN WriteAt(data, index, w) ELSE data
    /\ ref' = RefWriteAt(ref, index, w)
    /\ UNCHANGED <<C, kind, pc, entry, rhs>>

\* IndexMut::index_mut, map[index] = w
IndexMut(index, w) ==
    /\ IdleMap
    /\ call' = [op |-> "index_mut"]
    /\ was_inline' = is_inline(data)
    /\ old' = NoData
    /\ IF get_index(data, index).some
       THEN /\ data' = WriteAt(data, index, w)
            /\ ret' = SomeRef
            /\ pc' = pc
       ELSE /\ data' = data
            /\ ret' = Panic("SmallMap: index out of bounds")
            /\ pc' = "panicked"
    /\ ref' = RefWriteAt(ref, index, w)
    /\ UNCHANGED <<C, kind, entry, rhs>>

\* SmallMap::entry
EntryCall(key) ==
    /\ IdleMap
    /\ call' = [op |-> "entry", key |-> key]
    /\ was_inline' = is_inline(data)
    /\ old' = data
    /\ entry' = entry_of(data, key)
    /\ ret' = entry_of(data, key)
    /\ ref' = RefRead(ref)
    /\ UNCHANGED <<C, kind, pc, data, rhs>>

\* mutant of AndModify: the closure is called twice
AndModify_Twice(f) ==
    /\ pc = "live"
    /\ entry # NoEntry
    /\ call' = [op |-> "and_modify", f |-> f]
    /\ was_inline' = is_inline(data)
    /\ old' = NoData
    /\ IF entry.kind = "Occupied"
       THEN /\ data' = WriteAt(data, entry.index,
                               Apply(f, Apply(f, get_index(data, entry.index).val[2])))
            /\ ref' = RefWriteAt(ref, entry.index,
                                 Apply(f, Apply(f, get_index(data, entry.index).val[2])))
       ELSE /\ data' = data
            /\ ref' = RefRead(ref)
    /\ ret' = entry
    /\ UNCHANGED <<C, kind, pc, entry, rhs>>

\* Entry::and_modify
AndModify(f) ==
    /\ pc = "live"
    /\ entry # NoEntry
    /\ call' = [op |-> "and_modify", f |-> f]
    /\ was_inline' = is_inline(data)
    /\ old' = NoData
    /\ IF entry.kind = "Occupied"
       THEN /\ data' = WriteAt(data, entry.index,
                               Apply(f, get_index(data, entry.index).val[2]))
            /\ ref' = RefWriteAt(ref, entry.index,
                                 Apply(f, get_index(data, entry.index).val[2]))
       ELSE /\ data' = data
            /\ ref' = RefRead(ref)
    /\ ret' = entry
    /\ UNCHANGED <<C, kind, pc, entry, rhs>>

\* mutant of OrInsert: the default is inserted whatever the entry is
OrInsert_AlsoOccupied(default) ==
    /\ pc = "live"
    /\ entry # NoEntry
    /\ call' = [op |-> "or_insert", default |-> default]
    /\ was_inline' = is_inline(data)
    /\ old' = data
    /\ IF entry.kind = "Vacant"
       THEN /\ data' = insert(data, C, entry.key, default).data
            /\ ref' = RefInsert(ref, entry.key, default)
       ELSE /\ data' = insert(data, C, get_index(data, entry.index).val[1], default).data
            /\ ref' = RefInsert(ref, get_index(data, entry.index).val[1], default)
    /\ ret' = RetUnit
    /\ entry' = NoEntry
    /\ UNCHANGED <<C, kind, pc, rhs>>

\* Entry::or_insert
OrInsert(default) ==
    /\ pc = "live"
    /\ entry # NoEntry
    /\ call' = [op |-> "or_insert", default |-> default]
    /\ was_inline' = is_inline(data)
    /\ old' = data
    /\ IF entry.kind = "Vacant"
       THEN /\ data' = insert(data, C, entry.key, default).data
            /\ ref' = RefInsert(ref, entry.key, default)
       ELSE /\ data' = data
            /\ ref' = RefRead(ref)
    /\ ret' = RetUnit
    /\ entry' = NoEntry
    /\ UNCHANGED <<C, kind, pc, rhs>>

Next ==
    \/ \E debug \in BOOLEAN : New(debug)
    \/ \E debug \in BOOLEAN : SetNew(debug)
    \/ \E k \in Keys, v \in Vals : Insert(k, v)
    \/ \E k \in Keys : SetInsert(k)
    \/ \E k \in Keys, w \in Vals : GetMut(k, w)
    \/ \E i \in Indexes, w \in Vals : GetIndexMut(i, w)
    \/ \E i \in Indexes, w \in Vals : IndexMut(i, w)
    \/ \E k \in Keys : EntryCall(k)
    \/ \E f \in Fns : AndModify(f)
    \/ \E v \in Vals : OrInsert(v)

Spec == Init /\ [][Next]_vars

\* ------------------------------------------------------ construction
\* mutant of from_map: the number of entries decides, not the capacity
from_map_ByLen(m, capacity, c) ==
    IF Len(m) <= c THEN Inline(m) ELSE Heap(m)

\* SmallMap::from_map: the allocated capacity of the IndexMap decides
from_map(m, capacity, c) ==
    IF capacity <= c THEN Inline(m) ELSE Heap(m)

\* SmallMap::from_const
from_const(inline) == Inline(inline)

\* fastindexmap![k => v, ...]: an IndexMap filled by inserting the pairs in
\* order (the macro itself is not part of the source at hand)
FastIndexMapMacro(list) == Collect(list)

\* the capacities an IndexMap holding n entries may have allocated
Capacities(n) == n..(IF n > MaxC + 1 THEN n ELSE MaxC + 1)

\* $(map.insert($key, $value);)* of smallmap!
RECURSIVE InsertAll(_, _, _)
InsertAll(d, c, list) ==
    IF list = <<>> THEN d
    ELSE InsertAll(insert(d, c, list[1][1], list[1][2]).data, c, Tail(list))

\* smallmap!, after its SmallMap::new() has returned
smallmap(list, c, capacity) ==
    LET count == Len(list)
    IN  IF count <= c
        THEN InsertAll(Inline(<<>>), c, list)
        ELSE from_map(FastIndexMapMacro(list), capacity, c)

\* mutant of NoDuplicateKeys: the keys are counted without being collected
\* into a set
NoDuplicateKeys_CountsAll(vec) == Len(KeySeq(vec)) = Len(vec)

\* the debug_assert_eq! of smallset_inline! and of From<SmallVec>: the number
\* of distinct keys against the length
NoDuplicateKeys(vec) == Cardinality(KeySet(vec)) = Len(vec)

WithUnit(values) == [i \in DOMAIN values |-> <<values[i], Unit>>]

PairLists == SeqsUpTo(Pairs(Vals), MaxList)
ValueLists == SeqsUpTo(Keys, MaxList)
IndexMaps == {m \in PairLists : DistinctKeys(m)}

\* SmallMap::from_const on any SmallVec<[(K, V); C]>
FromConst(vec) ==
    /\ pc = "start"
    /\ call' = [op |-> "from_const", list |-> vec]
    /\ was_inline' = is_inline(data)
    /\ old' = NoData
    /\ pc' = "live"
    /\ kind' = "map"
    /\ data' = from_const(vec)
    /\ ret' = RetUnit
    /\ ref' = RefFromList(vec)
    /\ UNCHANGED <<C, entry, rhs>>

\* smallmap_inline!: C is the number of pairs listed
SmallmapInline(list) ==
    /\ pc = "start"
    /\ Len(list) = C
    /\ Len(list) >= 1
    /\ call' = [op |-> "smallmap_inline!", list |-> list]
    /\ was_inline' = is_inline(data)
    /\ old' = NoData
    /\ pc' = "live"
    /\ kind' = "map"
    /\ data' = from_const(list)
    /\ ret' = RetUnit
    /\ ref' = RefFromList(list)
    /\ UNCHANGED <<C, entry, rhs>>

\* From<SmallVec<[(K, V); C]>> for SmallMap
FromSmallVec(vec, debug) ==
    /\ pc = "start"
    /\ call' = [op |-> "From<SmallVec>", list |-> vec, debug |-> debug]
    /\ was_inline' = is_inline(data)
    /\ old' = NoData
    /\ IF debug /\ ~NoDuplicateKeys(vec)
       THEN /\ pc' = "panicked"
            /\ ret' = Panic("Duplicate keys are not allowed")
            /\ UNCHANGED <<kind, data>>
       ELSE /\ pc' = "live"
            /\ kind' = "map"
            /\ data' = Inline(vec)
            /\ ret' = RetUnit
    /\ ref' = RefFromList(vec)
    /\ UNCHANGED <<C, entry, rhs>>

\* SmallMap::from_map
FromMap(m, capacity) ==
    /\ pc = "start"
    /\ call' = [op |-> "from_map", list |-> m, capacity |-> capacity]
    /\ was_inline' = is_inline(data)
    /\ old' = NoData
    /\ pc' = "live"
    /\ kind' = "map"
    /\ data' = from_map(m, capacity, C)
    /\ ret' = RetUnit
    /\ ref' = RefFromList(m)
    /\ UNCHANGED <<C, entry, rhs>>

\* smallmap!
SmallmapMacro(list, debug, capacity) ==
    /\ pc = "start"
    /\ call' = [op |-> "smallmap!", list |-> list]
    /\ was_inline' = is_inline(data)
    /\ old' = NoData
    /\ IF debug /\ ~(C > 0)
       THEN /\ pc' = "panicked"
            /\ ret' = Panic("Cannot instantiate SmallMap with no capacity")
            /\ UNCHANGED <<kind, data>>
       ELSE /\ pc' = "live"
            /\ kind' = "map"
            /\ data' = smallmap(list, C, capacity)
            /\ ret' = RetUnit
    /\ ref' = RefFromList(list)
    /\ UNCHANGED <<C, entry, rhs>>

\* smallset!
SmallsetMacro(values, debug, capacity) ==
    /\ pc = "start"
    /\ call' = [op |-> "smallset!", list |-> WithUnit(values)]
    /\ was_inline' = is_inline(data)
    /\ old' = NoData
    /\ IF debug /\ ~(C > 0)
       THEN /\ pc' = "panicked"
            /\ ret' = Panic("Cannot instantiate SmallMap with no capacity")
            /\ UNCHANGED <<kind, data>>
       ELSE /\ pc' = "live"
            /\ kind' = "set"
            /\ data' = smallmap(WithUnit(values), C, capacity)
            /\ ret' = RetUnit
    /\ ref' = RefFromList(WithUnit(values))
    /\ UNCHANGED <<C, entry, rhs>>

\* smallset_inline!: C is the number of values listed
SmallsetInline(values, debug) ==
    /\ pc = "start"
    /\ Len(values) = C
    /\ Len(values) >= 1
    /\ call' = [op |-> "smallset_inline!", list |-> WithUnit(values), debug |-> debug]
    /\ was_inline' = is_inline(data)
    /\ old' = NoData
    /\ IF debug /\ ~NoDuplicateKeys(WithUnit(values))
       THEN /\ pc' = "panicked"
            /\ ret' = Panic("smallset_inline! cannot be initialized with duplicate keys")
            /\ UNCHANGED <<kind, data>>
       ELSE /\ pc' = "live"
            /\ kind' = "set"
            /\ data' = from_const(WithUnit(values))
            /\ ret' = RetUnit
    /\ ref' = RefFromList(WithUnit(values))
    /\ UNCHANGED <<C, entry, rhs>>

\* SmallMap::default (derived): MapData::default, which asserts nothing in
\* either build
DefaultCall(debug) ==
    /\ pc = "start"
    /\ call' = [op |-> "default", debug |-> debug]
    /\ was_inline' = is_inline(data)
    /\ old' = NoData
    /\ pc' = "live"
    /\ kind' = "map"
    /\ data' = Inline(<<>>)
    /\ ret' = RetUnit
    /\ UNCHANGED <<C, entry, ref, rhs>>

Start == pc = "start"

NextBuild ==
    \/ \E debug \in BOOLEAN : New(debug)
    \/ \E debug \in BOOLEAN : SetNew(debug)
    \/ \E debug \in BOOLEAN : DefaultCall(debug)
    \/ Start /\ \E vec \in PairLists : FromConst(vec)
    \/ Start /\ \E list \in PairLists : SmallmapInline(list)
    \/ Start /\ \E vec \in PairLists, debug \in BOOLEAN : FromSmallVec(vec, debug)
    \/ Start /\ \E m \in IndexMaps :
                   \E capacity \in Capacities(Len(m)) : FromMap(m, capacity)
    \/ Start /\ \E list \in PairLists, debug \in BOOLEAN :
                   \E capacity \in Capacities(Len(FastIndexMapMacro(list))) :
                      SmallmapMacro(list, debug, capacity)
    \/ Start /\ \E values \in ValueLists, debug \in BOOLEAN :
                   \E capacity \in Capacities(Len(FastIndexMapMacro(WithUnit(values)))) :
                      SmallsetMacro(values, debug, capacity)
    \/ Start /\ \E values \in ValueLists, debug \in BOOLEAN :
                   SmallsetInline(values, debug)

\* the ways to construct a container, each followed by nothing
SpecBuild == Init /\ [][NextBuild]_vars

\* --------------------------------------------------------------- reads
\* the most entries of a map that is only looked into
MaxRead == 2

\* &mut V: the reference is modelled by the index of the pair it points into
RefTo(index) == [slot |-> index]

\* mutant of get_mut: a key that is absent yields the first pair
get_mut_FirstIfAbsent(d, key) ==
    LET at == position(d.items, key)
    IN  IF at.some THEN Some(RefTo(at.val))
        ELSE IF Len(d.items) > 0 THEN Some(RefTo(0)) ELSE None

\* SmallMap::get_mut seen as a lookup: which pair the Option<&mut V> points
\* into
get_mut(d, key) ==
    LET at == position(d.items, key)
    IN  IF at.some THEN Some(RefTo(at.val)) ELSE None

\* mutant of get_index_mut: the last index in bounds is taken as out of bounds
get_index_mut_OneShort(d, index) ==
    IF index + 1 < Len(d.items) THEN Some(RefTo(index)) ELSE None

\* SmallMap::get_index_mut seen as a lookup
get_index_mut(d, index) ==
    IF index < Len(d.items) THEN Some(RefTo(index)) ELSE None

\* SmallMap::get
Get(key) ==
    /\ IdleMap
    /\ call' = [op |-> "get", key |-> key]
    /\ was_inline' = is_inline(data)
    /\ old' = data
    /\ ret' = get(data, key)
    /\ ref' = RefRead(ref)
    /\ UNCHANGED <<C, kind, pc, data, entry, rhs>>

\* SmallMap::get_index
GetIndex(index) ==
    /\ IdleMap
    /\ call' = [op |-> "get_index", index |-> index]
    /\ was_inline' = is_inline(data)
    /\ old' = data
    /\ ret' = get_index(data, index)
    /\ ref' = RefRead(ref)
    /\ UNCHANGED <<C, kind, pc, data, entry, rhs>>

\* SmallMap::get_index_of
GetIndexOf(key) ==
    /\ IdleMap
    /\ call' = [op |-> "get_index_of", key |-> key]
    /\ was_inline' = is_inline(data)
    /\ old' = data
    /\ ret' = get_index_of(data, key)
    /\ ref' = RefRead(ref)
    /\ UNCHANGED <<C, kind, pc, data, entry, rhs>>

\* Index::index, map[index]
Index(index) ==
    /\ IdleMap
    /\ call' = [op |-> "index", index |-> index]
    /\ was_inline' = is_inline(data)
    /\ old' = data
    /\ IF get_index(data, index).some
       THEN /\ ret' = Some(get_index(data, index).val[2])
            /\ pc' = pc
       ELSE /\ ret' = Panic("SmallMap: index out of bounds")
            /\ pc' = "panicked"
    /\ ref' = RefRead(ref)
    /\ UNCHANGED <<C, kind, data, entry, rhs>>

\* SmallMap::get_mut, the reference returned and nothing stored through it
GetMutRef(key) ==
    /\ IdleMap
    /\ call' = [op |-> "get_mut", key |-> key]
    /\ was_inline' = is_inline(data)
    /\ old' = data
    /\ ret' = get_mut(data, key)
    /\ ref' = RefRead(ref)
    /\ UNCHANGED <<C, kind, pc, data, entry, rhs>>

\* SmallMap::get_index_mut, the reference returned and nothing stored
\* through it
GetIndexMutRef(index) ==
    /\ IdleMap
    /\ call' = [op |-> "get_index_mut", index |-> index]
    /\ was_inline' = is_inline(data)
    /\ old' = data
    /\ ret' = get_index_mut(data, index)
    /\ ref' = RefRead(ref)
    /\ UNCHANGED <<C, kind, pc, data, entry, rhs>>

\* IndexMut::index_mut, &mut map[index] with nothing stored through it
IndexMutRef(index) ==
    /\ IdleMap
    /\ call' = [op |-> "index_mut", index |-> index]
    /\ was_inline' = is_inline(data)
    /\ old' = data
    /\ IF get_index_mut(data, index).some
       THEN /\ ret' = get_index_mut(data, index)
            /\ pc' = pc
       ELSE /\ ret' = Panic("SmallMap: index out of bounds")
            /\ pc' = "panicked"
    /\ ref' = RefRead(ref)
    /\ UNCHANGED <<C, kind, data, entry, rhs>>

ReadMaps == {m \in IndexMaps : Len(m) <= MaxRead}
ReadLists == {vec \in PairLists : Len(vec) <= MaxRead}

NextRead ==
    \/ Start /\ \E m \in ReadMaps :
                   \E capacity \in Capacities(Len(m)) : FromMap(m, capacity)
    \/ Start /\ \E vec \in ReadLists : FromConst(vec)
    \/ \E k \in Keys : Get(k)
    \/ \E i \in Indexes : GetIndex(i)
    \/ \E k \in Keys : GetIndexOf(k)
    \/ \E i \in Indexes : Index(i)
    \/ \E k \in Keys : GetMutRef(k)
    \/ \E i \in Indexes : GetIndexMutRef(i)
    \/ \E i \in Indexes : IndexMutRef(i)

\* a map adopted from an IndexMap, inline or on the heap, or made of a
\* SmallVec as it is, and the lookups by key and by position made on it
SpecRead == Init /\ [][NextRead]_vars

\* ------------------------------------------------------------ equality
Bool(b) == [bool |-> b]

\* SmallVec == SmallVec: the two slices are compared element by element
SmallVecEq(l0, r0) == l0 = r0

\* IndexMap == IndexMap: the same number of entries, and every key of m is
\* in n with an equal value; the order of the entries is not compared
IndexMapEq(m, n) ==
    /\ Len(m) = Len(n)
    /\ \A i \in DOMAIN m : get(Heap(n), m[i][1]) = Some(m[i][2])

\* mutant of eq: the entries are compared in iteration order, whatever the
\* representation
eq_OnIterators(a, b) == iter(a) = iter(b)

\* PartialEq for MapData, which PartialEq for SmallMap and for SmallSet
\* forward to
eq(a, b) ==
    IF a.tag = "Inline" /\ b.tag = "Inline" THEN SmallVecEq(a.items, b.items)
    ELSE IF a.tag = "Heap" /\ b.tag = "Heap" THEN IndexMapEq(a.items, b.items)
    ELSE FALSE

\* SmallSet::new for the second container
OtherNew(debug) ==
    /\ pc = "live"
    /\ other = NoData
    /\ IF debug /\ ~(C > 0)
       THEN /\ pc' = "panicked"
            /\ ret' = Panic("Cannot instantiate SmallMap with no capacity")
            /\ other' = other
       ELSE /\ pc' = pc
            /\ ret' = RetUnit
            /\ other' = Inline(<<>>)
    /\ fed' = 0
    /\ call' = [op |-> "other: SmallSet::new", list |-> call.list]
    /\ UNCHANGED <<C, kind, data, entry, was_inline, old, ref>>

\* SmallSet::insert on the second container, of the next entry of the list
\* the first container was built from
OtherInsert ==
    /\ pc = "live"
    /\ other # NoData
    /\ fed < Len(call.list)
    /\ other' = insert(other, C, call.list[fed + 1][1], call.list[fed + 1][2]).data
    /\ fed' = fed + 1
    /\ call' = [op |-> "other: SmallSet::insert", list |-> call.list]
    /\ ret' = RetUnit
    /\ UNCHANGED <<C, kind, pc, data, entry, was_inline, old, ref>>

\* the first container == the second
EqCall ==
    /\ pc = "live"
    /\ other # NoData
    /\ call' = [op |-> "eq", list |-> call.list]
    /\ ret' = Bool(eq(data, other))
    /\ UNCHANGED <<C, kind, pc, data, entry, was_inline, old, ref, rhs>>

NextReplay ==
    \/ Start /\ \E values \in ValueLists, debug \in BOOLEAN :
                   \E capacity \in Capacities(Len(FastIndexMapMacro(WithUnit(values)))) :
                      SmallsetMacro(values, debug, capacity)
    \/ \E debug \in BOOLEAN : OtherNew(debug)
    \/ OtherInsert
    \/ EqCall

\* a set built by smallset!, a second one built by new() and insert of the
\* same values in the same order, and the two compared
SpecReplay == Init /\ [][NextReplay]_vars

\* the IndexMaps a set can be made of
KeyMaps == {WithUnit(values) : values \in {v \in ValueLists : DistinctKeys(WithUnit(v))}}

\* SmallSet::from_keys(SmallMap::from_map(m))
FromKeys(m, capacity) ==
    /\ pc = "start"
    /\ call' = [op |-> "from_keys", list |-> m]
    /\ was_inline' = is_inline(data)
    /\ old' = NoData
    /\ pc' = "live"
    /\ kind' = "set"
    /\ data' = from_map(m, capacity, C)
    /\ ret' = RetUnit
    /\ ref' = RefFromList(m)
    /\ UNCHANGED <<C, entry, rhs>>

\* SmallSet::from_keys(SmallMap::from_map(m)) for the second container
OtherFromKeys(m, capacity) ==
    /\ pc = "live"
    /\ other = NoData
    /\ other' = from_map(m, capacity, C)
    /\ fed' = Len(m)
    /\ call' = [op |-> "other: SmallSet::from_keys", list |-> call.list]
    /\ ret' = RetUnit
    /\ UNCHANGED <<C, kind, pc, data, entry, was_inline, old, ref>>

NextEq ==
    \/ Start /\ \E m \in KeyMaps :
                   \E capacity \in Capacities(Len(m)) : FromKeys(m, capacity)
    \/ \E m \in KeyMaps :
          \E capacity \in Capacities(Len(m)) : OtherFromKeys(m, capacity)
    \/ EqCall

\* two sets, each adopted from an IndexMap, and the two compared
SpecEq == Init /\ [][NextEq]_vars

\* ================================================================ claims
Live == pc = "live"
Inserted == call.op \in {"insert", "SmallSet::insert"}

\* what the reference map shows a caller
RefLen(r) == Len(r.keys)
RefGet(r, k) == IF RefHas(r, k) THEN Some(r.val[RefIndex(r, k)]) ELSE None
RefGetIndex(r, i) ==
    IF i < Len(r.keys) THEN Some(<<r.keys[i + 1], r.val[i + 1]>>) ELSE None
RefGetIndexOf(r, k) == IF RefHas(r, k) THEN Some(RefIndex(r, k) - 1) ELSE None
RefIter(r) == [i \in DOMAIN r.keys |-> <<r.keys[i], r.val[i]>>]

\* C1: from new() with C >= 1, as long as every call was an insert of a key
\* not yet present: the length is the number of keys inserted; with exactly C
\* keys inserted the container is inline with len C, and with C + 1 keys
\* inserted it is on the heap with len C + 1.
C1_Threshold ==
    (Live /\ C >= 1 /\ ref.fresh) =>
        /\ len(data) = RefLen(ref)
        /\ RefLen(ref) = C => (is_inline(data) /\ len(data) = C)
        /\ RefLen(ref) = C + 1 => (~is_inline(data) /\ len(data) = C + 1)

C1_Witness ==
    /\ Live /\ C >= 2 /\ ref.fresh /\ Inserted
    /\ RefLen(ref) = C + 1
    /\ ~is_inline(data)

\* C2: an insert of a key that is already present leaves an inline container
\* inline, also when it holds exactly C entries.
C2_ExistingKeyStaysInline ==
    (Live /\ Inserted /\ is_inline(old) /\ get_index_of(old, call.key).some) =>
        is_inline(data)

\* C3: iter() and into_iter() yield the keys in the order in which each key
\* was first inserted, before and after the move to the heap.
C3_FirstInsertionOrder ==
    Live => /\ KeySeq(iter(data)) = ref.keys
            /\ KeySeq(into_iter(data)) = ref.keys

C3_Witness ==
    /\ Live /\ Inserted /\ ~is_inline(data) /\ C >= 1
    /\ len(data) = C + 1
    /\ \E i, j \in DOMAIN ref.keys : i < j /\ ref.keys[i] > ref.keys[j]

\* C4: insert(key, v) of a key that is present returns Some(previous value),
\* makes get(key) return v and leaves len() and every get_index_of(k) as
\* they were, inline and on the heap.
C4_UpdateInPlace ==
    (Live /\ call.op = "insert" /\ get_index_of(old, call.key).some) =>
        /\ ret = get(old, call.key)
        /\ ret.some
        /\ get(data, call.key) = Some(call.val)
        /\ len(data) = len(old)
        /\ \A k \in Keys : get_index_of(data, k) = get_index_of(old, k)

C4_Witness ==
    /\ Live /\ call.op = "insert" /\ ret.some
    /\ is_inline(data) /\ len(data) >= 2
    /\ get_index(data, 0).val[2] # ret.val

\* C5: what a caller observes (the return value of insert, len, get,
\* get_index, get_index_of, the iteration sequence) is what the reference
\* insertion-ordered map shows, whatever C is and whichever representation
\* the container is in.
C5_SameAsReference ==
    Live =>
        /\ len(data) = RefLen(ref)
        /\ iter(data) = RefIter(ref)
        /\ \A k \in Keys : /\ get(data, k) = RefGet(ref, k)
                           /\ get_index_of(data, k) = RefGetIndexOf(ref, k)
        /\ \A i \in Indexes : get_index(data, i) = RefGetIndex(ref, i)
        /\ call.op = "insert" => ret = ref.ret

C5_Witness ==
    /\ Live /\ call.op = "insert" /\ ret.some
    /\ ~is_inline(data) /\ len(data) >= 2

\* C6: a container on the heap stays on the heap under insert, the entry
\* calls, get_mut, get_index_mut and index_mut.
C6_HeapStaysHeap ==
    (/\ Live
     /\ call.op \in {"insert", "SmallSet::insert", "entry", "and_modify",
                     "or_insert", "get_mut", "get_index_mut", "index_mut"}
     /\ ~was_inline) => ~is_inline(data)

C6_Witness ==
    /\ Live /\ ~is_inline(data)
    /\ call.op \in {"get_mut", "get_index_mut", "index_mut", "and_modify", "or_insert"}

\* C7: the keys of a container built from new() are pairwise distinct in
\* every reachable state; insert and or_insert keep them so.
C7_KeysDistinct ==
    Live => DistinctKeys(data.items)

C7_Witness ==
    /\ Live /\ call.op = "or_insert" /\ len(data) = NKeys
    /\ DistinctKeys(data.items)

\* the keys of a literal list in order of first occurrence, and the value a
\* key is listed with last
RECURSIVE FirstOccurrences(_)
FirstOccurrences(keys) ==
    IF keys = <<>> THEN <<>>
    ELSE LET front == FirstOccurrences(SubSeq(keys, 1, Len(keys) - 1))
             last == keys[Len(keys)]
         IN  IF \E i \in DOMAIN front : front[i] = last THEN front
             ELSE Append(front, last)

LastValue(list, k) ==
    list[CHOOSE i \in DOMAIN list :
            /\ list[i][1] = k
            /\ \A j \in DOMAIN list : list[j][1] = k => j <= i][2]

\* C8: from_const, smallmap_inline! and From<SmallVec> never produce a map
\* that holds two entries with equal keys: a sequence with a duplicate key
\* is rejected.
C8_FastPathRejectsDuplicates ==
    call.op \in {"from_const", "smallmap_inline!", "From<SmallVec>"} =>
        /\ Live => DistinctKeys(data.items)
        /\ ~DistinctKeys(call.list) => pc = "panicked"

\* C9 as claimed: smallset_inline! given a list with a duplicate value
\* panics with its message and produces no set.
C9_SetInlineRejectsDuplicates ==
    (call.op = "smallset_inline!" /\ ~DistinctKeys(call.list)) =>
        /\ pc = "panicked"
        /\ ret = Panic("smallset_inline! cannot be initialized with duplicate keys")

\* C9 as amended: in a build with debug assertions enabled, smallset_inline!
\* given a list with a duplicate value panics with its message and produces
\* no set.
C9_SetInlineRejectsDuplicatesInDebug ==
    (call.op = "smallset_inline!" /\ call.debug /\ ~DistinctKeys(call.list)) =>
        /\ pc = "panicked"
        /\ ret = Panic("smallset_inline! cannot be initialized with duplicate keys")
        /\ data = NoData

C9_Witness ==
    /\ call.op = "smallset_inline!" /\ call.debug
    /\ ~DistinctKeys(call.list)
    /\ pc = "panicked"

\* C10: smallmap! and smallset! given a list that repeats a key do not fail
\* (for C >= 1); the result holds each distinct key once, in order of first
\* occurrence, with the value it is listed with last.
C10_MacroDeduplicates ==
    call.op \in {"smallmap!", "smallset!"} =>
        /\ C >= 1 => Live
        /\ Live =>
              /\ len(data) = Cardinality(KeySet(call.list))
              /\ KeySeq(iter(data)) = FirstOccurrences(KeySeq(call.list))
              /\ \A k \in KeySet(call.list) : get(data, k) = Some(LastValue(call.list, k))

C10_Witness ==
    /\ Live /\ call.op = "smallmap!"
    /\ Len(call.list) = 3 /\ len(data) = 2
    /\ call.list[1][1] = call.list[3][1]
    /\ call.list[1][2] # call.list[3][2]
    /\ call.list[1][1] > call.list[2][1]
    /\ is_inline(data)

\* C11: for every C and every list of values, the set built by smallset! and
\* the set built by new() followed by insert of the same values in the same
\* order compare equal.
C11_SameSetOnEitherPath ==
    (Live /\ call.op = "eq" /\ other # NoData /\ fed = Len(call.list)) =>
        ret = Bool(TRUE)

\* C12: an Inline container and a Heap container of the same capacity compare
\* unequal, also when they hold the same entries in the same order; == is
\* true only for two containers in the same representation.
C12_RepresentationsNeverEqual ==
    (Live /\ call.op = "eq") =>
        /\ is_inline(data) # is_inline(other) => ret = Bool(FALSE)
        /\ ret = Bool(TRUE) => is_inline(data) = is_inline(other)

C12_Witness ==
    /\ Live /\ call.op = "eq"
    /\ is_inline(data) /\ ~is_inline(other)
    /\ len(data) >= 2
    /\ iter(data) = iter(other)
    /\ ret = Bool(FALSE)

\* C13: from_map(m) returns an Inline container holding m's pairs in m's
\* order if m's allocated capacity is <= C, and otherwise a Heap container
\* holding m unchanged, also when m has no more than C entries.
C13_FromMapByCapacity ==
    call.op = "from_map" =>
        /\ Live
        /\ iter(data) = call.list
        /\ call.capacity <= C => data = Inline(call.list)
        /\ call.capacity > C => data = Heap(call.list)

C13_Witness ==
    /\ Live /\ call.op = "from_map"
    /\ len(data) >= 1 /\ len(data) <= C
    /\ call.capacity > C
    /\ ~is_inline(data)

Present(d, k) == k \in KeySet(d.items)

\* C14: in every reachable state and in both representations, for every key
\* k present get_index_of(k) is Some(i) with i < len(), get_index(i) is a
\* pair whose key is k, and get(k) is the value of that pair; the calls
\* return just that.
C14_IndexKeyConsistent ==
    Live =>
        /\ \A k \in Keys : Present(data, k) =>
              /\ get_index_of(data, k).some
              /\ get_index_of(data, k).val < len(data)
              /\ get_index(data, get_index_of(data, k).val).some
              /\ get_index(data, get_index_of(data, k).val).val[1] = k
              /\ get(data, k) = Some(get_index(data, get_index_of(data, k).val).val[2])
        /\ (call.op = "get_index_of" /\ Present(data, call.key)) =>
              /\ ret.some
              /\ ret.val < len(data)
              /\ data.items[ret.val + 1][1] = call.key
        /\ (call.op = "get" /\ Present(data, call.key)) =>
              ret = Some(data.items[get_index_of(data, call.key).val + 1][2])
        /\ (call.op = "get_index" /\ call.index < len(data)) =>
              /\ ret = Some(data.items[call.index + 1])
              /\ get_index_of(data, ret.val[1]).some
              /\ get_index_of(data, ret.val[1]).val <= call.index

C14_Witness ==
    /\ Live /\ call.op = "get_index_of" /\ ~is_inline(data)
    /\ ret = Some(1)
    /\ get_index(data, 1).val[1] = call.key

\* C15: map[i], by Index and by IndexMut, is the value at position i when
\* i < len() and panics with "SmallMap: index out of bounds" when i >= len(),
\* in both representations: on an empty container every map[i] panics.
C15_IndexOrPanic ==
    call.op \in {"index", "index_mut"} =>
        IF call.index < len(old)
        THEN /\ Live
             /\ call.op = "index" => ret = Some(old.items[call.index + 1][2])
             /\ call.op = "index_mut" => ret = Some(RefTo(call.index))
             /\ data = old
        ELSE /\ pc = "panicked"
             /\ ret = Panic("SmallMap: index out of bounds")

C15_Witness ==
    /\ call.op = "index_mut" /\ pc = "panicked"
    /\ ~is_inline(data) /\ len(data) = MaxRead
    /\ call.index = len(data)

\* C16: a lookup of something absent returns None and does not fail: get,
\* get_mut and get_index_of of a key that is not in the container, get_index
\* and get_index_mut of an index >= len(), in both representations; the
\* container is as it was.
C16_AbsentIsNone ==
    /\ (call.op \in {"get", "get_mut", "get_index_of"} /\ ~Present(old, call.key)) =>
          /\ ret = None
          /\ Live
          /\ data = old
    /\ (call.op \in {"get_index", "get_index_mut"} /\ call.index >= len(old)) =>
          /\ ret = None
          /\ Live
          /\ data = old

C16_Witness ==
    /\ Live /\ call.op = "get_mut" /\ ret = None
    /\ ~is_inline(data) /\ len(data) >= 1
    /\ ~Present(data, call.key)

\* C17: entry(key) returns Occupied(map, i) with i = get_index_of(key) exactly
\* when key is present and Vacant(map, key) exactly when it is absent; the
\* call leaves contents, order and representation as they were.
C17_EntryByLookup ==
    (Live /\ call.op = "entry") =>
        /\ Present(old, call.key) => ret = Occupied(get_index_of(old, call.key).val)
        /\ ~Present(old, call.key) => ret = Vacant(call.key)
        /\ ret.kind = "Occupied" <=> Present(old, call.key)
        /\ entry = ret
        /\ data = old

C17_Witness ==
    /\ Live /\ call.op = "entry" /\ ~is_inline(data)
    /\ ret = Occupied(1)
    /\ \E k \in Keys : ~Present(data, k)

\* an or_insert step, told by the call recorded after it
OrInsertStep ==
    call'.op = "or_insert" =>
        IF entry.kind = "Occupied"
        THEN data' = data
        ELSE /\ data' = insert(data, C, entry.key, call'.default).data
             /\ ~Present(data, entry.key)
             /\ iter(data') = Append(iter(data), <<entry.key, call'.default>>)
             /\ len(data') = len(data) + 1
             /\ is_inline(data) => (~is_inline(data') <=> len(data) = C)
             /\ ~is_inline(data) => ~is_inline(data')

\* C19: entry(key).or_insert(default) on an Occupied entry changes nothing;
\* on a Vacant entry it makes one insert(key, default): key comes last with
\* the value default, len() grows by 1, and the map moves to the heap exactly
\* when len() was C.
C19_OrInsert == [][OrInsertStep]_vars

C19_Witness ==
    /\ Live /\ call.op = "or_insert" /\ C >= 1
    /\ is_inline(old) /\ len(old) = C
    /\ ~is_inline(data) /\ len(data) = C + 1
    /\ data.items[C + 1][2] = call.default

\* an and_modify step, told by the call recorded after it
AndModifyStep ==
    call'.op = "and_modify" =>
        /\ entry' = entry
        /\ ret' = entry
        /\ entry.kind = "Vacant" => data' = data
        /\ entry.kind = "Occupied" =>
              /\ entry.index < len(data)
              /\ data' = [data EXCEPT !.items[entry.index + 1][2] = Apply(call'.f, @)]

\* C20: entry(key).and_modify(f) on a Vacant entry leaves the map as it is
\* and returns the same Vacant entry; on an Occupied(i) entry it applies f
\* once to the value at index i, changes nothing else (no key, no other
\* value, not len, order or representation) and returns Occupied(i).
C20_AndModify == [][AndModifyStep]_vars

C20_Witness ==
    /\ Live /\ call.op = "and_modify" /\ call.f = "succ"
    /\ ret = Occupied(1)
    /\ ~is_inline(data) /\ len(data) >= 2

\* C18: a container with C = 0 cannot be constructed: with debug assertions
\* on, new() and Default both fail instead of returning a container.
C18_ZeroCapacityRejected ==
    (call.op \in {"new", "default"} /\ call.debug /\ C = 0) =>
        /\ pc = "panicked"
        /\ data = NoData

\* C21: right after an insert that moved the container to the heap,
\* get_index(i) for every i < the old len is the pair it was before, the
\* pair just inserted is at index old len, and the container is on the heap.
C21_TransitionKeepsAll ==
    (Live /\ Inserted /\ is_inline(old) /\ ~is_inline(data)) =>
        /\ \A i \in Indexes : i < len(old) => get_index(data, i) = get_index(old, i)
        /\ get_index(data, len(old)) = Some(<<call.key, call.val>>)
        /\ len(data) = len(old) + 1
        /\ data.tag = "Heap"

\* C22: a container in the Inline state holds at most C entries, whichever
\* way it was constructed (new, from_map, From<SmallVec>, from_const, the
\* macros).
C22_InlineWithinCapacity ==
    (Live /\ is_inline(data)) => len(data) <= C

\* C23: two containers in the same representation, both Inline or both Heap,
\* compare equal exactly when they hold the same pairs in the same insertion
\* order; the same pairs in another order compare unequal in either
\* representation.
C23_SameOrderInEitherRepresentation ==
    (Live /\ call.op = "eq" /\ is_inline(data) = is_inline(other)) =>
        (ret = Bool(TRUE) <=> iter(data) = iter(other))

====
